---- MODULE Spec2Model ----
(***************************************************************************)
(* Vasttrafik departure and planner sensors                                *)
(* (homeassistant/components/vasttrafik/sensor.py) as a state machine.     *)
(*                                                                         *)
(* Python values are tagged records: None, str, list and dict.  A dict     *)
(* that the provider returns (a board entry, a leg) is a TLA+ function     *)
(* whose domain is the set of keys the dict carries, so that `k in d` is   *)
(* k \in DOMAIN d and d.get(k) is None for a missing key.                  *)
(***************************************************************************)
EXTENDS Integers, Sequences, FiniteSets, TLC

VARIABLES
    config,      \* the validated platform configuration handed to setup_platform
    pc,          \* "configured" | "running" | "failed"
    setupError,  \* the exception setup_platform ended with ("none" when it returned)
    entities,    \* the sensors handed to add_entities, in order
    lookupLog,   \* the calls made to planner.location_name, in order
    fetchAge,    \* per sensor: seconds since its last fetch call (-1: none yet)
    lastOp       \* what the most recent call (setup_platform, update) did

vars == <<config, pc, setupError, entities, lookupLog, fetchAge, lastOp>>

-----------------------------------------------------------------------------
(* Python values *)

PyNone == [t |-> "None"]
Str(s) == [t |-> "str", v |-> s]
List(q) == [t |-> "list", v |-> q]
Dict(m) == [t |-> "dict", v |-> m]
\* an instance attribute that was never assigned
Unset == [t |-> "unset"]
\* a str kept as its sequence of characters (station names and identifiers)
Chars(s) == [t |-> "chars", v |-> s]

\* the str built by a format with literal text in it, kept as its arguments
Format(args) == [t |-> "format", v |-> args]

Truthy_ListAlways(x) ==
    CASE x.t = "None" -> FALSE
      [] x.t = "str"  -> x.v # ""
      [] x.t = "chars" -> x.v # <<>>
      [] x.t = "dict" -> DOMAIN x.v # {}
      [] OTHER -> TRUE
\* bool(x) of Python
Truthy(x) ==
    CASE x.t = "None" -> FALSE
      [] x.t = "str"  -> x.v # ""
      [] x.t = "chars" -> x.v # <<>>
      [] x.t = "list" -> x.v # <<>>
      [] x.t = "dict" -> DOMAIN x.v # {}
      [] x.t = "format" -> TRUE
      [] OTHER -> TRUE

\* d.get(k) for a dict of strings
Get(d, k) == IF k \in DOMAIN d THEN Str(d[k]) ELSE PyNone

\* a dict literal with one optional key
Opt(k, val) == IF val = "absent" THEN <<>> ELSE k :> val

FilterTruthy_NoFilter(params) == params
\* {k: v for k, v in params.items() if v}
FilterTruthy(params) ==
    [k \in {j \in DOMAIN params : Truthy(params[j])} |-> params[k]]

ATTRIBUTION == "Data provided by Vasttrafik"

MIN_TIME_BETWEEN_UPDATES_Tenth == 120 \div 10
MIN_TIME_BETWEEN_UPDATES == 120

-----------------------------------------------------------------------------
(* Station names are strings of characters, so that isdecimal() is computed *)

DecimalChars == {"0", "1", "2", "3", "4", "5", "6", "7", "8", "9"}

\* str.isdecimal(): non-empty and every character a decimal digit
isdecimal(s) == Len(s) > 0 /\ \A i \in 1..Len(s) : s[i] \in DecimalChars

\* the station strings a configuration may carry
Locations == { <<"9", "0">>, <<"9", "a">>, <<"a", "b">> }

\* planner.location_name(query): a provider error, or a list of {id, name}
StationA == [id |-> <<"7", "1">>, name |-> "Centralstationen"]
StationB == [id |-> <<"7", "2">>, name |-> "Brunnsparken"]
LookupResults ==
    { [t |-> "error"], List(<<>>), List(<<StationB, StationA>>) }

\* the provider's directory during one setup_platform call
Directories == [Locations -> LookupResults]

-----------------------------------------------------------------------------
(* Configuration, as PLATFORM_SCHEMA validates it *)

DEFAULT_DELAY == 0

\* one entry of the "departures" section
DepartureConf(from, heading, lines, name) ==
    [from |-> from, heading |-> heading, lines |-> lines, name |-> name,
     delay |-> DEFAULT_DELAY]

\* one entry of the "planner" section
PlannerConf(from, destination, skip, name) ==
    [from |-> from, destination |-> destination, skip |-> skip, name |-> name,
     delay |-> DEFAULT_DELAY]

DepartureConfs ==
    { DepartureConf(<<"9", "0">>, PyNone, <<>>, PyNone),
      DepartureConf(<<"9", "a">>, Chars(<<"9", "0">>), <<"6">>, Str("Home")),
      DepartureConf(<<"9", "0">>, Chars(<<"a", "b">>), <<"7">>, PyNone),
      DepartureConf(<<"a", "b">>, Chars(<<>>), <<>>, Str("")) }

\* the largest skip index a configuration carries
MaxSkip == 1

PlannerConfs ==
    { PlannerConf(f, d, k, PyNone) :
        f \in {<<"9", "0">>, <<"a", "b">>}, d \in {<<"9", "0">>}, k \in 0..MaxSkip }

\* sequences over S of length at most n
RECURSIVE SeqsUpTo(_, _)
SeqsUpTo(S, n) ==
    IF n = 0 THEN { <<>> }
    ELSE LET shorter == SeqsUpTo(S, n - 1)
         IN  shorter \cup { Append(q, x) : q \in {r \in shorter : Len(r) = n - 1}, x \in S }

-----------------------------------------------------------------------------
(* Sensor construction *)

\* the outcome of a call that may raise
Raised(exc, calls) == [exc |-> exc, calls |-> calls]
Returned(value, calls) == [exc |-> "none", value |-> value, calls |-> calls]

\* planner.location_name(location)[0]: the first result, or the exception
FirstLocation(dir, location, role) ==
    LET res == dir[location]
        call == <<[q |-> location, role |-> role,
                   out |-> IF res.t = "error" THEN "error"
                           ELSE IF res.v = <<>> THEN "empty" ELSE "found"]>>
    IN  IF res.t = "error" THEN Raised("vasttrafik.Error", call)
        ELSE IF res.v = <<>> THEN Raised("IndexError", call)
        ELSE Returned(res.v[1], call)

\* VasttrafikDepartureSensor.get_station_id
get_station_id(dir, location, role) ==
    IF isdecimal(location)
    THEN Returned([station_name |-> location, station_id |-> location], <<>>)
    ELSE LET r == FirstLocation(dir, location, role)
         IN  IF r.exc # "none" THEN r
             ELSE Returned([station_name |-> location, station_id |-> r.value.id], r.calls)

\* VasttrafikDepartureSensor.__init__
DepartureSensorInit(dir, conf) ==
    LET dep == get_station_id(dir, conf.from, "from")
        head == IF Truthy(conf.heading)
                THEN get_station_id(dir, conf.heading.v, "heading")
                ELSE Returned(PyNone, <<>>)
    IN  IF dep.exc # "none" THEN dep
        ELSE IF head.exc # "none" THEN Raised(head.exc, dep.calls \o head.calls)
        ELSE Returned(
               [kind |-> "departure",
                _name |-> IF Truthy(conf.name) THEN conf.name ELSE Chars(conf.from),
                _departure |-> dep.value,
                _heading |-> IF Truthy(conf.heading) THEN Dict(head.value) ELSE PyNone,
                _lines |-> IF conf.lines # <<>> THEN List(conf.lines) ELSE PyNone,
                _delay |-> conf.delay,
                _departureboard |-> PyNone,
                _state |-> PyNone,
                _attributes |-> PyNone,
                _throttle |-> -1],
               dep.calls \o head.calls)

\* VasttrafikPlannerSensor.__init__ (it assigns no _journeys)
PlannerSensorInit(dir, conf) ==
    LET dep == FirstLocation(dir, conf.from, "from")
        dest == FirstLocation(dir, conf.destination, "destination")
    IN  IF dep.exc # "none" THEN dep
        ELSE IF dest.exc # "none" THEN Raised(dest.exc, dep.calls \o dest.calls)
        ELSE Returned(
               [kind |-> "planner",
                _name |-> IF Truthy(conf.name) THEN conf.name ELSE Chars(conf.from),
                _departure |-> dep.value,
                _destination |-> dest.value,
                _delay |-> conf.delay,
                _skip |-> conf.skip,
                _journeys |-> Unset,
                _state |-> PyNone,
                _attributes |-> PyNone,
                _throttle |-> -1],
               dep.calls \o dest.calls)

SensorInit(dir, conf, kind) ==
    IF kind = "departure" THEN DepartureSensorInit(dir, conf) ELSE PlannerSensorInit(dir, conf)

\* the lookups of the sensor under construction, labelled with its position
Owned(calls, owner, kind) ==
    [i \in 1..Len(calls) |-> [q |-> calls[i].q, role |-> calls[i].role,
                              out |-> calls[i].out, owner |-> owner, kind |-> kind]]

RECURSIVE AppendSensors_SkipFailed(_, _, _, _, _)
AppendSensors_SkipFailed(dir, section, kind, k, acc) ==
    IF acc.exc # "none" THEN acc
    ELSE IF section.t = "None" THEN [acc EXCEPT !.exc = "TypeError"]
    ELSE IF k > Len(section.v) THEN acc
    ELSE LET r == SensorInit(dir, section.v[k], kind)
             log == acc.log \o Owned(r.calls, Len(acc.sensors) + 1, kind)
         IN  AppendSensors_SkipFailed(dir, section, kind, k + 1,
               [exc |-> "none",
                sensors |-> IF r.exc # "none" THEN acc.sensors ELSE Append(acc.sensors, r.value),
                log |-> log])

\* one "for ... in section: sensors.append(Sensor(...))" loop of setup_platform,
\* from entry k on; acc is [exc, sensors, log]
RECURSIVE AppendSensors(_, _, _, _, _)
AppendSensors(dir, section, kind, k, acc) ==
    IF acc.exc # "none" THEN acc
    ELSE IF section.t = "None" THEN [acc EXCEPT !.exc = "TypeError"]
    ELSE IF k > Len(section.v) THEN acc
    ELSE LET r == SensorInit(dir, section.v[k], kind)
             log == acc.log \o Owned(r.calls, Len(acc.sensors) + 1, kind)
         IN  IF r.exc # "none"
             THEN [exc |-> r.exc, sensors |-> acc.sensors, log |-> log]
             ELSE AppendSensors(dir, section, kind, k + 1,
                    [exc |-> "none", sensors |-> Append(acc.sensors, r.value), log |-> log])

\* the body of setup_platform up to add_entities
BuildSensors(dir, cfg) ==
    LET deps == AppendSensors(dir, cfg.departures, "departure", 1,
                              [exc |-> "none", sensors |-> <<>>, log |-> <<>>])
    IN  AppendSensors(dir, cfg.planner, "planner", 1, deps)

NoOp == [op |-> "none"]

\* setup_platform(hass, config, add_entities)
SetupPlatform ==
    /\ pc = "configured"
    /\ \E dir \in Directories :
         LET built == BuildSensors(dir, config)
         IN  /\ lookupLog' = built.log
             /\ setupError' = built.exc
             /\ IF built.exc = "none"
                THEN /\ pc' = "running"
                     /\ entities' = built.sensors
                     /\ fetchAge' = [i \in 1..Len(built.sensors) |-> -1]
                ELSE /\ pc' = "failed"
                     /\ UNCHANGED <<entities, fetchAge>>
    /\ lastOp' = [op |-> "setup"]
    /\ UNCHANGED config

\* the largest number of entries in a section of the configuration
MaxDepartures == 2
MaxPlanner == 2

Sections(confs, n) == { PyNone } \cup { List(q) : q \in SeqsUpTo(confs, n) }

Configs ==
    [departures : Sections(DepartureConfs, MaxDepartures),
     planner : Sections(PlannerConfs, MaxPlanner)]

InitWith(cfgs) ==
    /\ config \in cfgs
    /\ pc = "configured"
    /\ setupError = "none"
    /\ entities = <<>>
    /\ lookupLog = <<>>
    /\ fetchAge = <<>>
    /\ lastOp = NoOp

InitSetup == InitWith(Configs)
NextSetup == SetupPlatform
SpecSetup == InitSetup /\ [][NextSetup]_vars

-----------------------------------------------------------------------------
(* The departure board *)

\* one entry of the board, with the keys the provider gave it
DepartureEntry(sname, time, rtTime, cancelled, track, direction, accessibility) ==
    Opt("sname", sname) @@ ("time" :> time) @@ Opt("rtTime", rtTime)
      @@ Opt("cancelled", cancelled) @@ Opt("track", track)
      @@ Opt("direction", direction) @@ Opt("accessibility", accessibility)

DepartureEntries ==
    { DepartureEntry("6", "10:00", "absent", "absent", "absent", "absent", "absent"),
      DepartureEntry("7", "10:05", "10:07", "absent", "", "Angered", "wheelChair"),
      DepartureEntry("absent", "10:10", "absent", "absent", "B", "absent", "absent"),
      DepartureEntry("6", "10:15", "10:16", "true", "A", "absent", "absent"),
      DepartureEntry("7", "10:20", "absent", "false", "absent", "absent", "absent") }

\* the longest board the provider returns
MaxBoard == 2

Boards == SeqsUpTo(DepartureEntries, MaxBoard)

\* what planner.departureboard(...) does: raises vasttrafik.Error or returns a board
BoardResults == { [t |-> "error"] } \cup { List(b) : b \in Boards }

\* "cancelled" in departure
IsCancelled(departure) == "cancelled" \in DOMAIN departure

LinePasses_Any(lines, departure) == TRUE
\* not self._lines or line in self._lines, with line = departure.get("sname")
LinePasses(lines, departure) ==
    \/ ~Truthy(lines)
    \/ LET line == Get(departure, "sname")
       IN  line.t = "str" /\ \E j \in 1..Len(lines.v) : lines.v[j] = line.v

\* the for loop over the board: the index at which it breaks, 0 when it runs out
RECURSIVE DepartureScan(_, _, _)
DepartureScan(board, lines, k) ==
    IF k > Len(board) THEN 0
    ELSE IF IsCancelled(board[k]) THEN DepartureScan(board, lines, k + 1)
    ELSE IF LinePasses(lines, board[k]) THEN k
    ELSE DepartureScan(board, lines, k + 1)

DepartureTime_Scheduled(departure) == Str(departure["time"])
\* rtTime if the entry has the key, else time
DepartureTime(departure) ==
    IF "rtTime" \in DOMAIN departure
    THEN Str(departure["rtTime"])
    ELSE Str(departure["time"])

\* the params dict of the selected departure
DepartureParams(departure) ==
    [accessibility |-> Get(departure, "accessibility"),
     attribution |-> Str(ATTRIBUTION),
     direction |-> Get(departure, "direction"),
     line |-> Get(departure, "sname"),
     track |-> Get(departure, "track")]

\* VasttrafikDepartureSensor.update below the Throttle decorator: the sensor after
\* the call, given what planner.departureboard did
DepartureUpdate(s, result) ==
    LET board == IF result.t = "error" THEN s._departureboard ELSE result
        fetched == [s EXCEPT !._departureboard = board]
    IN  IF ~Truthy(board)
        THEN [fetched EXCEPT !._state = PyNone, !._attributes = Dict(<<>>)]
        ELSE LET k == DepartureScan(board.v, s._lines, 1)
             IN  IF k = 0 THEN fetched
                 ELSE [fetched EXCEPT
                         !._state = DepartureTime(board.v[k]),
                         !._attributes = Dict(FilterTruthy(DepartureParams(board.v[k])))]

-----------------------------------------------------------------------------
(* Journeys *)

Stop(name, time, rtTime, track) ==
    ("name" :> name) @@ ("time" :> time) @@ ("date" :> "2019-10-01")
      @@ Opt("rtTime", rtTime) @@ Opt("rtDate", IF rtTime = "absent" THEN "absent" ELSE "2019-10-02")
      @@ Opt("track", track)

\* a leg without realtime data
LegScheduled ==
    ("name" :> "Buss 16")
      @@ ("Origin" :> Stop("Centralstationen", "10:00", "absent", "absent"))
      @@ ("Destination" :> Stop("Brunnsparken", "10:20", "absent", "absent"))
\* a leg whose stops carry realtime data
LegRealtime ==
    ("name" :> "Sparvagn 6") @@ ("sname" :> "6")
      @@ ("Origin" :> Stop("Brunnsparken", "10:05", "10:07", "A"))
      @@ ("Destination" :> Stop("Korsvagen", "10:30", "10:32", "B"))
\* a leg that carries an rtTime key of its own beside its stops' realtime data
LegFlagged ==
    ("name" :> "Vasttagen") @@ ("rtTime" :> "10:12")
      @@ ("Origin" :> Stop("Korsvagen", "10:10", "10:12", "absent"))
      @@ ("Destination" :> Stop("Molndal", "10:40", "absent", ""))

\* a journey's Leg is a bare leg or a list of legs
Journeys ==
    { [Leg |-> Dict(LegScheduled)], [Leg |-> Dict(LegRealtime)],
      [Leg |-> List(<<LegFlagged>>)],
      [Leg |-> List(<<LegScheduled, LegRealtime>>)],
      [Leg |-> List(<<LegRealtime, LegFlagged>>)] }

\* the longest list of journeys the provider returns
MaxJourneys == 2

JourneyLists == SeqsUpTo(Journeys, MaxJourneys)

\* what planner.trip(...) does: raises vasttrafik.Error or returns the journeys
TripResults == { [t |-> "error"] } \cup { List(js) : js \in JourneyLists }

\* if type(journey["Leg"]) is not list: journey["Leg"] = [journey["Leg"]]
NormalizeLeg(journey) ==
    IF journey.Leg.t # "list" THEN [Leg |-> List(<<journey.Leg.v>>)] ELSE journey

\* "rtTime" in first_leg
HasRealtime(first_leg) == "rtTime" \in DOMAIN first_leg

\* the state the first leg gives
FirstLegTime(first_leg) ==
    IF HasRealtime(first_leg)
    THEN Str(first_leg["Origin"]["rtTime"])
    ELSE Str(first_leg["Origin"]["time"])

\* "{} {}".format(date, time) of the first leg's origin
FirstLegDateTime(first_leg) ==
    IF HasRealtime(first_leg)
    THEN Format(<<first_leg["Origin"]["rtDate"], first_leg["Origin"]["rtTime"]>>)
    ELSE Format(<<first_leg["Origin"]["date"], first_leg["Origin"]["time"]>>)

\* pretty_print_leg: "{} ->  {} ({})" of the leg's name, destination and arrival
pretty_print_leg(leg) ==
    LET leg_destination == leg["Destination"]
    IN  Format(<<IF "sname" \in DOMAIN leg THEN leg["sname"] ELSE leg["name"],
                 Format(<<leg_destination["name"],
                          IF "track" \in DOMAIN leg_destination
                          THEN Format(<<leg_destination["track"]>>)
                          ELSE Str("")>>),
                 IF "rtTime" \in DOMAIN leg_destination
                 THEN leg_destination["rtTime"]
                 ELSE leg_destination["time"]>>)

TripOf_FirstLegOnly(legs) == List(<<pretty_print_leg(legs[1])>>)
\* [pretty_print_leg(leg) for leg in journey["Leg"]]
TripOf(legs) == List([j \in 1..Len(legs) |-> pretty_print_leg(legs[j])])

PlannerParams(legs) ==
    [attribution |-> Str(ATTRIBUTION),
     trip |-> TripOf(legs),
     date_time_departure |-> FirstLegDateTime(legs[1])]

RaiseIndexError_Cleared(fetched) ==
    [sensor |-> [fetched EXCEPT !._state = PyNone, !._attributes = Dict(<<>>)],
     exc |-> "IndexError"]
\* self._journeys[self._skip] with the index out of range: the call ends there, with
\* the fetched list already stored
RaiseIndexError(fetched) == [sensor |-> fetched, exc |-> "IndexError"]

\* VasttrafikPlannerSensor.update below the Throttle decorator: the sensor after the
\* call and the exception it ends with, given what planner.trip did
PlannerUpdate(s, result) ==
    LET journeys == IF result.t = "error" THEN s._journeys ELSE result
        fetched == [s EXCEPT !._journeys = journeys]
    IN  IF journeys.t = "unset" THEN [sensor |-> s, exc |-> "AttributeError"]
        ELSE IF ~Truthy(journeys)
        THEN [sensor |-> [fetched EXCEPT !._state = PyNone, !._attributes = Dict(<<>>)],
              exc |-> "none"]
        ELSE IF s._skip + 1 > Len(journeys.v) THEN RaiseIndexError(fetched)
        ELSE LET journey == NormalizeLeg(journeys.v[s._skip + 1])
                 legs == journey.Leg.v
             IN  [sensor |-> [fetched EXCEPT
                                !._journeys = List([journeys.v EXCEPT ![s._skip + 1] = journey]),
                                !._state = FirstLegTime(legs[1]),
                                !._attributes = Dict(FilterTruthy(PlannerParams(legs)))],
                  exc |-> "none"]

-----------------------------------------------------------------------------
(* Throttle and time *)

\* ages above MaxAge are recorded as MaxAge
MaxAge == 121

\* the time that passes between two calls of the host
Delays == {60, 120, MaxAge}

Older(age, d) ==
    IF age = -1 THEN -1 ELSE IF age + d > MaxAge THEN MaxAge ELSE age + d

\* Throttle(MIN_TIME_BETWEEN_UPDATES): the call is skipped when the sensor's last
\* executed update is at most the interval old
Throttled(s) == s._throttle # -1 /\ s._throttle <= MIN_TIME_BETWEEN_UPDATES

FetchCalls_Retry(result) ==
    [fetches |-> IF result.t = "error" THEN 2 ELSE 1,
     refreshes |-> IF result.t = "error" THEN 1 ELSE 0]
\* the calls one executed update() makes on the API client: the query in the try
\* block, and update_token() in the except block
FetchCalls(result) ==
    [fetches |-> 1, refreshes |-> IF result.t = "error" THEN 1 ELSE 0]

\* the journey update() selects arrives with a bare leg
BareSelected(s, result) ==
    /\ result.t = "list"
    /\ s._skip + 1 <= Len(result.v)
    /\ result.v[s._skip + 1].Leg.t # "list"

\* time passes
Tick ==
    /\ pc = "running"
    /\ \E i \in 1..Len(entities) : entities[i]._throttle \notin {-1, MaxAge}
    /\ \E d \in Delays :
         /\ entities' = [i \in 1..Len(entities) |->
                           [entities[i] EXCEPT !._throttle = Older(@, d)]]
         /\ fetchAge' = [i \in 1..Len(fetchAge) |-> Older(fetchAge[i], d)]
    /\ UNCHANGED <<config, pc, setupError, lookupLog, lastOp>>

Assign_OnClass(ents, i, s) ==
    [j \in 1..Len(ents) |->
       IF j = i THEN s
       ELSE IF ents[j].kind = s.kind
       THEN [ents[j] EXCEPT !._state = s._state, !._attributes = s._attributes]
       ELSE ents[j]]
\* the assignments of update() go to attributes of self: of the sensors the platform
\* registered, only the one the call is made on changes
Assign(ents, i, s) == [ents EXCEPT ![i] = s]

\* an update() call the throttle skips
UpdateThrottled(i) ==
    /\ pc = "running"
    /\ Throttled(entities[i])
    /\ lastOp' = [op |-> "update", i |-> i, ran |-> FALSE, fetch |-> "none",
                  fetches |-> 0, refreshes |-> 0, exc |-> "none", gap |-> -1,
                  bare |-> FALSE]
    /\ UNCHANGED <<config, pc, setupError, entities, lookupLog, fetchAge>>

\* an update() call of departure sensor i that the throttle lets through
UpdateDeparture(i, result) ==
    /\ pc = "running"
    /\ entities[i].kind = "departure"
    /\ ~Throttled(entities[i])
    /\ entities' = Assign(entities, i,
                           [DepartureUpdate(entities[i], result) EXCEPT !._throttle = 0])
    /\ fetchAge' = [fetchAge EXCEPT ![i] = 0]
    /\ lastOp' = [op |-> "update", i |-> i, ran |-> TRUE,
                  fetch |-> IF result.t = "error" THEN "error" ELSE "ok",
                  fetches |-> FetchCalls(result).fetches,
                  refreshes |-> FetchCalls(result).refreshes,
                  exc |-> "none", gap |-> fetchAge[i], bare |-> FALSE]
    /\ UNCHANGED <<config, pc, setupError, lookupLog>>

\* an update() call of planner sensor i that the throttle lets through
UpdatePlanner(i, result) ==
    /\ pc = "running"
    /\ entities[i].kind = "planner"
    /\ ~Throttled(entities[i])
    /\ LET r == PlannerUpdate(entities[i], result)
       IN  /\ entities' = Assign(entities, i, [r.sensor EXCEPT !._throttle = 0])
           /\ lastOp' = [op |-> "update", i |-> i, ran |-> TRUE,
                         fetch |-> IF result.t = "error" THEN "error" ELSE "ok",
                         fetches |-> FetchCalls(result).fetches,
                         refreshes |-> FetchCalls(result).refreshes,
                         exc |-> r.exc, gap |-> fetchAge[i],
                         bare |-> BareSelected(entities[i], result)]
    /\ fetchAge' = [fetchAge EXCEPT ![i] = 0]
    /\ UNCHANGED <<config, pc, setupError, lookupLog>>

\* a platform with one departure sensor, or with one planner sensor
OneDeparture == { [departures |-> List(<<c>>), planner |-> List(<<>>)] : c \in DepartureConfs }
OnePlanner == { [departures |-> List(<<>>), planner |-> List(<<c>>)] : c \in PlannerConfs }

Init == InitWith(OneDeparture \cup OnePlanner)
Next ==
    \/ SetupPlatform
    \/ Tick
    \/ \E i \in 1..Len(entities) : UpdateThrottled(i)
    \/ \E i \in 1..Len(entities) : \E result \in BoardResults : UpdateDeparture(i, result)
    \/ \E i \in 1..Len(entities) : \E result \in TripResults : UpdatePlanner(i, result)
Spec == Init /\ [][Next]_vars

\* a platform with two sensors on the one API client: two departure sensors, a
\* departure and a planner sensor, or two planner sensors
PairConfigs ==
    LET d1 == DepartureConf(<<"9", "0">>, PyNone, <<>>, PyNone)
        d2 == DepartureConf(<<"9", "0">>, Chars(<<"a", "b">>), <<"7">>, PyNone)
        p1 == PlannerConf(<<"9", "0">>, <<"9", "0">>, 0, PyNone)
        p2 == PlannerConf(<<"a", "b">>, <<"9", "0">>, 1, PyNone)
    IN  { [departures |-> List(<<d1, d2>>), planner |-> List(<<>>)],
          [departures |-> List(<<d1>>), planner |-> List(<<p2>>)],
          [departures |-> List(<<>>), planner |-> List(<<p1, p2>>)] }

\* what the provider answers a sensor of the pair: an error, or at most one entry
PairBoardResults ==
    { [t |-> "error"], List(<<>>) } \cup { List(<<e>>) : e \in DepartureEntries }
PairTripResults ==
    { [t |-> "error"], List(<<>>) } \cup { List(<<j>>) : j \in Journeys }

InitPair == InitWith(PairConfigs)
NextPair ==
    \/ SetupPlatform
    \/ Tick
    \/ \E i \in 1..Len(entities) : UpdateThrottled(i)
    \/ \E i \in 1..Len(entities) : \E result \in PairBoardResults : UpdateDeparture(i, result)
    \/ \E i \in 1..Len(entities) : \E result \in PairTripResults : UpdatePlanner(i, result)
SpecPair == InitPair /\ [][NextPair]_vars

-----------------------------------------------------------------------------
(* Properties *)

\* the most recent operation was an update() that the throttle let through
RanUpdate == lastOp.op = "update" /\ lastOp.ran
\* the sensor that update() was called on
Updated == entities[lastOp.i]
RanUpdateOf(kind) == RanUpdate /\ Updated.kind = kind

Cleared(s) == s._state = PyNone /\ s._attributes = Dict(<<>>)

\* the entry the departure sensor's last scan stopped at (0: none)
Selected(s) ==
    IF Truthy(s._departureboard) THEN DepartureScan(s._departureboard.v, s._lines, 1) ELSE 0

\* C1: when the query of an unthrottled update() fails with a provider error, the
\* sensor ends that update() with state None and attributes {} (stated for the
\* update() calls that return, so that it does not rest on C3).
C1_ErrorClearsObservation ==
    (RanUpdate /\ lastOp.fetch = "error" /\ lastOp.exc = "none") => Cleared(Updated)

\* C2: when an unthrottled departure update() fetches a non-empty board whose entries
\* are all cancelled, the sensor ends that update() with state None and attributes {}.
C2_AllCancelledClears ==
    (/\ RanUpdateOf("departure")
     /\ lastOp.fetch = "ok"
     /\ Updated._departureboard.v # <<>>
     /\ \A k \in 1..Len(Updated._departureboard.v) :
          LET e == Updated._departureboard.v[k]
          IN  "cancelled" \in DOMAIN e /\ e["cancelled"] = "true")
    => Cleared(Updated)

\* C3: an update() whose query fails with a provider error completes normally, in
\* every cycle, the first one after construction included.
C3_ProviderErrorNotSurfaced ==
    (RanUpdate /\ lastOp.fetch = "error") => lastOp.exc = "none"

\* C4: two update() calls of one sensor less than 120 seconds apart make at most one
\* fetch call together: a fetch is never followed by another fetch of the same
\* sensor less than 120 seconds later.
C4_Throttle ==
    (lastOp.op = "update" /\ lastOp.fetches > 0 /\ lastOp.gap # -1)
    => (lastOp.fetches = 1 /\ lastOp.gap >= 120)
\* an update() called 60 seconds after the sensor's last fetch, which fetched nothing
C4_Witness ==
    /\ lastOp.op = "update" /\ ~lastOp.ran /\ lastOp.fetches = 0
    /\ fetchAge[lastOp.i] = 60

\* the claim's reading of a running departure: the cancelled flag is not true
NotCancelled(e) == ~("cancelled" \in DOMAIN e /\ e["cancelled"] = "true")
FilterAllows(lines, e) ==
    lines.t = "None" \/ ("sname" \in DOMAIN e /\ \E j \in 1..Len(lines.v) : lines.v[j] = e["sname"])
Eligible(s, k) ==
    NotCancelled(s._departureboard.v[k]) /\ FilterAllows(s._lines, s._departureboard.v[k])

\* C5: when an unthrottled departure update() fetches a board with an entry that is
\* not cancelled and passes the line filter, state and attributes are those of the
\* first such entry.
C5_FirstMatchWins ==
    (RanUpdateOf("departure") /\ lastOp.fetch = "ok")
    => \A k \in 1..Len(Updated._departureboard.v) :
         (Eligible(Updated, k) /\ \A j \in 1..(k - 1) : ~Eligible(Updated, j))
         => LET e == Updated._departureboard.v[k]
            IN  /\ Updated._state =
                     Str(IF "rtTime" \in DOMAIN e THEN e["rtTime"] ELSE e["time"])
                /\ Updated._attributes.t = "dict"
                /\ \A a \in DOMAIN Updated._attributes.v :
                     a = "attribution" \/
                     Updated._attributes.v[a] =
                       Str(e[IF a = "line" THEN "sname" ELSE a])

\* C6: for a departure sensor with a non-empty line filter, a line name in the
\* attributes is always a member of the filter, and every entry an update() selects
\* as the source of the state has a line name that is a member of the filter.
C6_LineFilter ==
    \A i \in 1..Len(entities) :
      (entities[i].kind = "departure" /\ Truthy(entities[i]._lines))
      => LET s == entities[i]
             InFilter(x) == x.t = "str" /\ \E j \in 1..Len(s._lines.v) : s._lines.v[j] = x.v
         IN  /\ (s._attributes.t = "dict" /\ "line" \in DOMAIN s._attributes.v)
                  => InFilter(s._attributes.v["line"])
             /\ (RanUpdate /\ lastOp.i = i /\ Selected(s) # 0)
                  => InFilter(Get(s._departureboard.v[Selected(s)], "sname"))
\* a filtered sensor that passed over a running entry of another line
C6_Witness ==
    /\ RanUpdateOf("departure") /\ lastOp.fetch = "ok"
    /\ Truthy(Updated._lines)
    /\ Selected(Updated) = 2
    /\ ~IsCancelled(Updated._departureboard.v[1])
    /\ Updated._state # PyNone

\* C7: after a planner update() that selects a journey, the state is the realtime
\* origin time of the first leg when that origin carries one, else the scheduled one.
C7_PlannerRealtimeOrigin ==
    (/\ RanUpdateOf("planner")
     /\ lastOp.exc = "none"
     /\ Truthy(Updated._journeys))
    => LET origin == Updated._journeys.v[Updated._skip + 1].Leg.v[1]["Origin"]
       IN  Updated._state =
             Str(IF "rtTime" \in DOMAIN origin THEN origin["rtTime"] ELSE origin["time"])

\* the configuration entry sensor i was built from
ConfOf(i) ==
    IF i <= Len(config.departures.v) THEN config.departures.v[i]
    ELSE config.planner.v[i - Len(config.departures.v)]
\* the display name and station identifier of a resolved station
RefName(ref) == IF "station_name" \in DOMAIN ref THEN ref["station_name"] ELSE ref["name"]
RefId(ref) == IF "station_id" \in DOMAIN ref THEN ref["station_id"] ELSE ref["id"]
Verbatim(ref, input) == RefName(ref) = input /\ RefId(ref) = input

\* C8: a station given in decimal digits only is never looked up by name, and its
\* reference is the input itself as display name and as identifier, for all four
\* kinds of station reference.
C8_DecimalVerbatim ==
    /\ \A n \in 1..Len(lookupLog) : ~isdecimal(lookupLog[n].q)
    /\ pc = "running" =>
         \A i \in 1..Len(entities) :
           /\ isdecimal(ConfOf(i).from) => Verbatim(entities[i]._departure, ConfOf(i).from)
           /\ (entities[i].kind = "departure" /\ entities[i]._heading # PyNone
                 /\ isdecimal(ConfOf(i).heading.v))
               => Verbatim(entities[i]._heading.v, ConfOf(i).heading.v)
           /\ (entities[i].kind = "planner" /\ isdecimal(ConfOf(i).destination))
               => Verbatim(entities[i]._destination, ConfOf(i).destination)

\* C9: whenever a sensor's attributes are a mapping, every value in it is truthy.
C9_AttributesNonEmpty ==
    \A i \in 1..Len(entities) :
      entities[i]._attributes.t = "dict"
      => \A k \in DOMAIN entities[i]._attributes.v : Truthy(entities[i]._attributes.v[k])
\* a departure was selected whose track is the empty string, and the attributes
\* carry its accessibility
C9_Witness ==
    /\ RanUpdateOf("departure")
    /\ Selected(Updated) # 0
    /\ LET e == Updated._departureboard.v[Selected(Updated)]
       IN  "track" \in DOMAIN e /\ e["track"] = "" /\ "accessibility" \in DOMAIN e
    /\ Updated._attributes.t = "dict"
    /\ "accessibility" \in DOMAIN Updated._attributes.v

\* C10: after a departure update() that selects an entry, the state is the entry's
\* realtime time when it has one, and its scheduled time otherwise.
C10_DepartureRealtimeOrScheduled ==
    (RanUpdateOf("departure") /\ Selected(Updated) # 0)
    => LET e == Updated._departureboard.v[Selected(Updated)]
       IN  Updated._state = Str(IF "rtTime" \in DOMAIN e THEN e["rtTime"] ELSE e["time"])
\* an entry with both times was selected and the realtime one is shown
C10_Witness ==
    /\ RanUpdateOf("departure")
    /\ Selected(Updated) # 0
    /\ "rtTime" \in DOMAIN Updated._departureboard.v[Selected(Updated)]
    /\ Updated._state = Str("10:07")

\* C11: when an unthrottled planner update() fetches an empty list of journeys, it
\* completes without error and leaves state None and attributes {}, for every skip
\* index and whatever the sensor showed before.
C11_EmptyJourneysClear ==
    (RanUpdateOf("planner") /\ lastOp.fetch = "ok" /\ Updated._journeys = List(<<>>))
    => (lastOp.exc = "none" /\ Cleared(Updated))
\* a sensor with skip index 1 that fetched before gets an empty list
C11_Witness ==
    /\ RanUpdateOf("planner") /\ lastOp.fetch = "ok"
    /\ Updated._journeys = List(<<>>)
    /\ Updated._skip = 1
    /\ lastOp.gap # -1

\* the sensor as its constructor leaves it: same configuration, no cycle behind it
Fresh(s) ==
    IF s.kind = "departure"
    THEN [s EXCEPT !._departureboard = PyNone, !._state = PyNone, !._attributes = PyNone]
    ELSE [s EXCEPT !._journeys = Unset, !._state = PyNone, !._attributes = PyNone]

Observation(s) == <<s._state, s._attributes>>

\* what a sensor without history shows after a cycle that fetched the data s holds
FreshObservation(s) ==
    IF s.kind = "departure"
    THEN Observation(DepartureUpdate(Fresh(s), s._departureboard))
    ELSE Observation(PlannerUpdate(Fresh(s), s._journeys).sensor)

\* C12: after an unthrottled update() whose fetch succeeds, state and attributes
\* depend on the data fetched in that cycle and on the configuration only: the
\* sensor shows what a sensor of the same configuration without any earlier cycle
\* shows for the same fetched data.
C12_ObservationFromThisCycle ==
    (RanUpdate /\ lastOp.fetch = "ok") => Observation(Updated) = FreshObservation(Updated)

\* the journey the planner sensor's last update() selected
SelectedJourney(s) == s._journeys.v[s._skip + 1]

\* an executed update() of a planner sensor that selected a journey
SelectedAJourney ==
    RanUpdateOf("planner") /\ lastOp.exc = "none" /\ Truthy(Updated._journeys)

\* C13: after a planner update() that selects a journey, the trip attribute is a
\* sequence with exactly one description per leg of that journey, in leg order; a
\* journey that arrives with a bare leg gives a sequence of one element; and an
\* update() that runs again on the journey it normalised before (its query failed)
\* gives the same sequence again.
C13_TripPerLeg ==
    /\ [](SelectedAJourney =>
            LET legs == SelectedJourney(Updated).Leg
                trip == Updated._attributes.v["trip"]
            IN  /\ legs.t = "list" /\ trip.t = "list"
                /\ Len(trip.v) = Len(legs.v)
                /\ \A k \in 1..Len(legs.v) : trip.v[k] = pretty_print_leg(legs.v[k])
                /\ lastOp.bare => Len(trip.v) = 1)
    /\ [][(/\ SelectedAJourney' /\ lastOp'.fetch = "error"
           /\ entities'[lastOp'.i]._throttle = 0 /\ entities[lastOp'.i]._throttle # 0)
          => /\ entities[lastOp'.i]._attributes.t = "dict"
             /\ entities'[lastOp'.i]._attributes.v["trip"]
                  = entities[lastOp'.i]._attributes.v["trip"]]_vars
\* a query that fails after the selection of a journey that arrived with a bare leg
\* (the journeys that arrive with a list of one leg have another leg than this one)
C13_Witness ==
    /\ SelectedAJourney /\ lastOp.fetch = "error"
    /\ Len(SelectedJourney(Updated).Leg.v) = 1
    /\ SelectedJourney(Updated).Leg.v[1] = LegScheduled

\* the entries of a section of the configuration; an omitted section has none
EntriesOf(section) == IF section.t = "None" THEN <<>> ELSE section.v

\* sensor s was built from entry conf of the section of its kind
BuiltFrom(s, conf, kind) ==
    /\ s.kind = kind
    /\ s._name = (IF Truthy(conf.name) THEN conf.name ELSE Chars(conf.from))
    /\ s._delay = conf.delay
    /\ kind = "planner" => s._skip = conf.skip
    /\ kind = "departure" => s._lines = (IF conf.lines # <<>> THEN List(conf.lines) ELSE PyNone)

\* no station lookup of the setup failed
AllNamesResolved == setupError \notin {"vasttrafik.Error", "IndexError"}

\* C14: for every validated configuration, with either section possibly omitted,
\* whose station names all resolve, setup_platform completes and registers exactly
\* one sensor per configured entry: the departure sensors first, the planner sensors
\* after them, each group in configuration order.
C14_OneSensorPerEntry ==
    (lastOp.op = "setup" /\ AllNamesResolved)
    => LET deps == EntriesOf(config.departures)
           plans == EntriesOf(config.planner)
       IN  /\ pc = "running" /\ setupError = "none"
           /\ Len(entities) = Len(deps) + Len(plans)
           /\ \A k \in 1..Len(deps) : BuiltFrom(entities[k], deps[k], "departure")
           /\ \A k \in 1..Len(plans) : BuiltFrom(entities[Len(deps) + k], plans[k], "planner")

\* C15: there is no retry within a cycle: one unthrottled update() calls the fetch
\* exactly once, and the token refresh exactly once when the fetch fails with a
\* provider error and not at all when it succeeds; a call that is not an
\* unthrottled update() fetches nothing.
C15_NoRetry ==
    lastOp.op = "update"
    => /\ lastOp.ran => /\ lastOp.fetches = 1
                        /\ lastOp.fetch = "error" => lastOp.refreshes = 1
                        /\ lastOp.fetch = "ok" => lastOp.refreshes = 0
       /\ ~lastOp.ran => (lastOp.fetches = 0 /\ lastOp.refreshes = 0)
\* a cycle after the first one whose fetch fails
C15_Witness ==
    RanUpdate /\ lastOp.fetch = "error" /\ lastOp.gap # -1 /\ lastOp.refreshes = 1

\* this step is an update() call on sensor i (a step of Tick leaves lastOp alone and
\* lowers no age)
CalledUpdate(i) ==
    /\ lastOp'.op = "update" /\ lastOp'.i = i
    /\ (lastOp' # lastOp \/ entities'[i]._throttle < entities[i]._throttle)

\* C16: an update() invoked within 120 seconds of the sensor's previous executed
\* update() is a no-op: it makes no fetch and no token refresh, and it leaves state,
\* attributes, the cached board or list of journeys and the throttle stamp as they
\* were.
C16_ThrottledIsNoOp ==
    [][\A i \in 1..Len(entities) :
         (CalledUpdate(i) /\ entities[i]._throttle \in 0..120)
         => /\ entities' = entities /\ fetchAge' = fetchAge
            /\ lastOp'.fetches = 0 /\ lastOp'.refreshes = 0]_vars
\* a sensor that shows a departure or a journey is called 120 seconds after its
\* last executed update()
C16_Witness ==
    /\ lastOp.op = "update" /\ ~lastOp.ran
    /\ Updated._throttle = 120
    /\ Updated._state # PyNone

\* C17: when an unthrottled planner update() fetches a non-empty list of journeys
\* whose length is at most the skip index, the call fails with IndexError, and
\* state and attributes are exactly what they were before the call.
C17_SkipOutOfRange ==
    [][\A i \in 1..Len(entities) :
         (/\ CalledUpdate(i) /\ lastOp'.ran /\ lastOp'.fetch = "ok"
          /\ entities[i].kind = "planner"
          /\ entities'[i]._journeys.v # <<>>
          /\ Len(entities'[i]._journeys.v) <= entities[i]._skip)
         => /\ lastOp'.exc = "IndexError"
            /\ Observation(entities'[i]) = Observation(entities[i])]_vars
\* the call failed with IndexError on a sensor that showed a journey before
C17_Witness ==
    /\ RanUpdateOf("planner") /\ lastOp.fetch = "ok" /\ lastOp.exc = "IndexError"
    /\ Updated._state # PyNone
    /\ Updated._attributes.t = "dict" /\ "trip" \in DOMAIN Updated._attributes.v

\* C18: the sensors that share the API client are independent: in any interleaving
\* of update() calls on two sensors, a call on one of them leaves the other one's
\* state, attributes, cached board or list of journeys and throttle stamp as they
\* were, also when the call refreshes the token.
C18_SensorsIndependent ==
    [][\A i \in 1..Len(entities) :
         CalledUpdate(i)
         => \A j \in 1..Len(entities) : j # i => entities'[j] = entities[j]]_vars
\* a call on one sensor refreshed the token while the other sensor, of the same
\* kind, shows a departure or a journey and is inside its throttle window
C18_Witness ==
    /\ RanUpdate /\ lastOp.refreshes = 1
    /\ \E j \in 1..Len(entities) :
         /\ j # lastOp.i
         /\ entities[j].kind = Updated.kind
         /\ entities[j]._state # PyNone
         /\ entities[j]._throttle \in 0..120
         /\ Observation(entities[j]) # Observation(Updated)

\* a station lookup of the setup raised or returned no result
FailedLookup(n) == lookupLog[n].out # "found"

\* C19: a station lookup that fails is fatal for the whole setup: when the lookup
\* of any configured entry raises or returns no result, the failure leaves
\* setup_platform and no sensor is registered, the sensors constructed before the
\* failing one included.
C19_LookupFailureFatal ==
    (lastOp.op = "setup" /\ \E n \in 1..Len(lookupLog) : FailedLookup(n))
    => /\ pc = "failed" /\ entities = <<>> /\ fetchAge = <<>>
       /\ FailedLookup(Len(lookupLog))
       /\ setupError = (IF lookupLog[Len(lookupLog)].out = "error"
                        THEN "vasttrafik.Error" ELSE "IndexError")
\* the lookup for the second planner sensor fails, after a departure sensor and a
\* planner sensor were constructed
C19_Witness ==
    /\ lastOp.op = "setup"
    /\ \E n \in 1..Len(lookupLog) :
         /\ FailedLookup(n)
         /\ lookupLog[n].kind = "planner" /\ lookupLog[n].owner = 3
    /\ Len(EntriesOf(config.departures)) = 1

====
